---- MODULE Spec2Model ----
(***************************************************************************)
(* Model of protobuf-lite: the byte cursor (buffer.rs), the varint and     *)
(* fixed-width codecs (varint.rs, fixint.rs) and the schema-less decode /  *)
(* encode engine (protobuf.rs).                                            *)
(*                                                                         *)
(* Machine integers.  A u64 / i64 is its 64-bit pattern: a tuple of 64     *)
(* bits, element 1 the least significant one.  An i32 is a tuple of 32     *)
(* bits.  A byte (u8) and a usize that indexes a buffer are naturals.      *)
(***************************************************************************)
EXTENDS Integers, Sequences, FiniteSets, TLC

VARIABLES
    mode,     \* which entry point the run exercises: "decode", "encode", "varint",
              \* "reader", "map"
    input,    \* the bytes handed to decode_protobuf
    stack,    \* call stack of decode_protobuf_from invocations, innermost last
    ret,      \* what the outermost decode_protobuf_from returned
    src,      \* the value tree the input was encoded from (round trips)
    lastLen,  \* the latest read_length_delimited call that returned Ok
    enc,      \* what the latest encode call returned
    vi,       \* the varint codec run: the integer, its bytes, the value read
    steps,    \* steps taken by the decode_protobuf call in progress
    rd,       \* the Reader run: the Reader, its latest operation and result
    ins       \* the (field, value) pairs inserted into the map src, in order

vars == <<mode, input, stack, ret, src, lastLen, enc, vi, steps, rd, ins>>

-----------------------------------------------------------------------------
(* 64-bit and 32-bit patterns *)

W64 == 1..64
W32 == 1..32

\* the tuple of the bits b[1], ..., b[w]
Bits(b, w) == SubSeq(b, 1, w)

Zero64 == Bits([i \in W64 |-> 0], 64)

\* v as u64, for a natural v that fits a machine int of the checker
U64(v) == Bits([i \in W64 |-> IF i <= 31 THEN (v \div (2 ^ (i - 1))) % 2 ELSE 0], 64)

\* 2^k and 2^k - 1 as u64
Pow2(k) == Bits([i \in W64 |-> IF i = k + 1 THEN 1 ELSE 0], 64)
Ones(k) == Bits([i \in W64 |-> IF i <= k THEN 1 ELSE 0], 64)

\* x << n and x >> n (logical) on u64, for 0 <= n < 64
Shl64(x, n) == SubSeq(Zero64, 1, n) \o SubSeq(x, 1, 64 - n)
Shr64(x, n) == SubSeq(x, n + 1, 64) \o SubSeq(Zero64, 1, n)

\* x | y, !x on u64
Or64(x, y) == Bits([i \in W64 |-> IF x[i] = 1 \/ y[i] = 1 THEN 1 ELSE 0], 64)
Not64(x) == Bits([i \in W64 |-> 1 - x[i]], 64)

\* (x as i64) >> n: the arithmetic shift, which copies the sign bit in
Sar64(x, n) == SubSeq(x, n + 1, 64) \o [i \in 1..n |-> x[64]]

\* x as u8, x & 0x07, x & 1
LowByte(x) == x[1] + 2 * x[2] + 4 * x[3] + 8 * x[4] + 16 * x[5] + 32 * x[6]
              + 64 * x[7] + 128 * x[8]
Low3(x) == x[1] + 2 * x[2] + 4 * x[3]

\* x >= 0x80
Ge128(x) == \E i \in 8..64 : x[i] = 1

\* x < y as unsigned integers
Lt64(x, y) == \E i \in W64 : /\ x[i] = 0 /\ y[i] = 1
                             /\ \A j \in (i + 1)..64 : x[j] = y[j]

\* x as usize, where the value is only ever compared with or used as a
\* buffer length: every value of 2^20 or more is clamped to 2^20, which
\* exceeds the length of any buffer of the model
AsUsize(x) ==
    IF \E i \in 21..64 : x[i] = 1 THEN 2 ^ 20
    ELSE LET RECURSIVE sum(_)
             sum(i) == IF i > 20 THEN 0 ELSE x[i] * (2 ^ (i - 1)) + sum(i + 1)
         IN sum(1)

\* to_le_bytes / from_le_bytes of an integer of w bits
ToLeBytes(x, w) ==
    Bits([k \in 1..(w \div 8) |->
            LET o == 8 * (k - 1) IN
            x[o + 1] + 2 * x[o + 2] + 4 * x[o + 3] + 8 * x[o + 4] + 16 * x[o + 5]
            + 32 * x[o + 6] + 64 * x[o + 7] + 128 * x[o + 8]], w \div 8)
FromLeBytes(b, w) ==
    Bits([i \in 1..w |-> (b[((i - 1) \div 8) + 1] \div (2 ^ ((i - 1) % 8))) % 2], w)

-----------------------------------------------------------------------------
(* buffer.rs: Reader *)

\* Reader::new
Reader_new(data) == [buf |-> data, pos |-> 0, remain |-> Len(data)]

\* Reader::reset
reset(r) == [r EXCEPT !.pos = 0, !.remain = Len(r.buf)]

\* Reader::is_end
is_end(r) == r.remain = 0

\* Reader::read_byte: Ok(byte), or the io error UnexpectedEof
read_byte(r) ==
    IF r.remain < 1
    THEN [ok |-> FALSE, err |-> "io::UnexpectedEof", r |-> r, v |-> 0]
    ELSE [ok |-> TRUE, err |-> "", v |-> r.buf[r.pos + 1],
          r |-> [r EXCEPT !.pos = r.pos + 1, !.remain = r.remain - 1]]

\* read_bytes that hands out what is left when fewer than n bytes remain
read_bytes_partial(r, n) ==
    IF r.remain < n
    THEN [ok |-> FALSE, err |-> "io::UnexpectedEof", v |-> <<>>,
          r |-> [r EXCEPT !.pos = Len(r.buf), !.remain = 0]]
    ELSE [ok |-> TRUE, err |-> "", v |-> SubSeq(r.buf, r.pos + 1, r.pos + n),
          r |-> [r EXCEPT !.pos = r.pos + n, !.remain = r.remain - n]]

\* Reader::read_bytes
read_bytes(r, n) ==
    IF r.remain < n
    THEN [ok |-> FALSE, err |-> "io::UnexpectedEof", r |-> r, v |-> <<>>]
    ELSE [ok |-> TRUE, err |-> "", v |-> SubSeq(r.buf, r.pos + 1, r.pos + n),
          r |-> [r EXCEPT !.pos = r.pos + n, !.remain = r.remain - n]]

\* Reader::skip
skip(r, n) ==
    IF r.remain < n
    THEN [ok |-> FALSE, err |-> "io::UnexpectedEof", r |-> r, v |-> <<>>]
    ELSE [ok |-> TRUE, err |-> "", v |-> <<>>,
          r |-> [r EXCEPT !.pos = r.pos + n, !.remain = r.remain - n]]

\* Reader::remaining
remaining(r) == r.remain

\* Reader::read_all_bytes
read_all_bytes(r) == read_bytes(r, r.remain)

\* Reader::read_bytes_into, dst a destination of n bytes
read_bytes_into(r, n) == read_bytes(r, n)

-----------------------------------------------------------------------------
(* varint.rs *)

MAX_VARINT_LENGTH == 10

\* write_uvarint: buf with the varint of x appended
RECURSIVE write_uvarint(_, _)
write_uvarint(x, buf) ==
    IF Ge128(x)
    THEN write_uvarint(Shr64(x, 7), Append(buf, (LowByte(x) % 128) + 128))
    ELSE Append(buf, LowByte(x))

\* the zig-zag mapping of write_varint
ZigZag(x) ==
    LET ux == Shl64(x, 1) IN IF x[64] = 1 THEN Not64(ux) ELSE ux

\* write_varint
write_varint(x, buf) == write_uvarint(ZigZag(x), buf)

encode_uvarint(x) == write_uvarint(x, <<>>)
encode_varint(x) == write_varint(x, <<>>)

\* the loop of read_uvarint, entered with the accumulator x and the shift
RECURSIVE read_uvarint_loop(_, _, _)
read_uvarint_loop(r, x, shift) ==
    LET rb == read_byte(r) IN
    IF ~rb.ok
    THEN [ok |-> FALSE, err |-> "UnexpectedEof", r |-> rb.r, v |-> Zero64]
    ELSE LET b == rb.v
             x2 == Or64(x, Shl64(U64(b % 128), shift))
             shift2 == shift + 7
         IN IF b < 128
            THEN [ok |-> TRUE, err |-> "", r |-> rb.r, v |-> x2]
            ELSE IF shift2 >= 64
            THEN [ok |-> FALSE, err |-> "OverFlow64Bit", r |-> rb.r, v |-> Zero64]
            ELSE read_uvarint_loop(rb.r, x2, shift2)

\* read_uvarint that drains the buffer once it has its value
read_uvarint_greedy(r) ==
    IF is_end(r)
    THEN [ok |-> FALSE, err |-> "EOF", r |-> r, v |-> Zero64]
    ELSE LET u == read_uvarint_loop(r, Zero64, 0) IN
         IF u.ok THEN [u EXCEPT !.r = [r EXCEPT !.pos = Len(r.buf), !.remain = 0]]
         ELSE u

\* read_uvarint
read_uvarint(r) ==
    IF is_end(r)
    THEN [ok |-> FALSE, err |-> "EOF", r |-> r, v |-> Zero64]
    ELSE read_uvarint_loop(r, Zero64, 0)

\* the inverse zig-zag mapping as read_varint computes it
UnZigZag(ux) ==
    LET x == Sar64(ux, 1) IN IF ux[1] # 0 THEN Not64(x) ELSE x

\* read_varint
read_varint(r) ==
    LET u == read_uvarint(r) IN
    IF ~u.ok THEN u ELSE [u EXCEPT !.v = UnZigZag(u.v)]

-----------------------------------------------------------------------------
(* fixint.rs *)

RECURSIVE Reverse(_)
Reverse(b) == IF b = <<>> THEN <<>> ELSE Append(Reverse(Tail(b)), Head(b))
write_fix32_be(x, buf) == buf \o Reverse(ToLeBytes(x, 32))
write_fix32(x, buf) == buf \o ToLeBytes(x, 32)
write_fix64(x, buf) == buf \o ToLeBytes(x, 64)

read_fix32(r) ==
    LET b == read_bytes_into(r, 4) IN
    IF ~b.ok THEN b ELSE [b EXCEPT !.v = FromLeBytes(b.v, 32)]

read_fix64(r) ==
    LET b == read_bytes_into(r, 8) IN
    IF ~b.ok THEN b ELSE [b EXCEPT !.v = FromLeBytes(b.v, 64)]

-----------------------------------------------------------------------------
(* protobuf.rs: the value model *)

\* WireType, by its code
VARINT == 0
I64 == 1
LEN == 2
SGROUP == 3
EGROUP == 4
I32 == 5

\* ProtoData.  String holds its text as the UTF-8 bytes a Rust String is.
Varint(v) == [t |-> "Varint", v |-> v]
Fix64(v) == [t |-> "Fix64", v |-> v]
Fix32(v) == [t |-> "Fix32", v |-> v]
Bytes(v) == [t |-> "Bytes", v |-> v]
String(v) == [t |-> "String", v |-> v]
Repeated(v) == [t |-> "Repeated", v |-> v]
Message(v) == [t |-> "Message", v |-> v]

\* Map<u64, ProtoData>: the entries [k, v] of the BTreeMap in ascending key
\* order, which is the order its iterator yields them in
Map_new == <<>>

\* BTreeMap::contains_key, and BTreeMap::get on a key the map contains
MapHas(m, key) == \E i \in 1..Len(m) : m[i].k = key
MapGet(m, key) == m[CHOOSE i \in 1..Len(m) : m[i].k = key].v

\* an insert that keeps the entries in insertion order
MapInsertAppend(m, key, val) ==
    IF MapHas(m, key)
    THEN [i \in 1..Len(m) |-> IF m[i].k = key THEN [k |-> key, v |-> val] ELSE m[i]]
    ELSE Append(m, [k |-> key, v |-> val])

\* BTreeMap::insert
MapInsert(m, key, val) ==
    IF MapHas(m, key)
    THEN [i \in 1..Len(m) |-> IF m[i].k = key THEN [k |-> key, v |-> val] ELSE m[i]]
    ELSE LET n == Cardinality({i \in 1..Len(m) : Lt64(m[i].k, key)})
         IN SubSeq(m, 1, n) \o <<[k |-> key, v |-> val]>> \o SubSeq(m, n + 1, Len(m))

\* ProtoData::wire_type
wire_type(d) ==
    CASE d.t = "Varint" -> VARINT
      [] d.t = "Fix64" -> I64
      [] d.t = "Fix32" -> I32
      [] OTHER -> LEN

\* (field << 3) | (wire type as u64)
Tag(field, wt) == Or64(Shl64(field, 3), U64(wt))

EncOk(buf) == [ok |-> TRUE, err |-> "", buf |-> buf]
EncErr(buf) == [ok |-> FALSE, err |-> "DataError", buf |-> buf]

RECURSIVE encode_to(_, _, _)
RECURSIVE encode_repeated_to(_, _, _)
RECURSIVE Map_encode_to(_, _, _)
RECURSIVE RepeatedLoop(_, _, _, _, _)

\* the tag the Repeated arm of encode_to writes before its elements
RepeatedHead(d, field, buf) ==
    IF wire_type(d.v[1]) = LEN
    THEN buf
    ELSE write_uvarint(Tag(field, wire_type(d)), buf)

\* the checks the Repeated arm makes on element i, typ the discriminant
\* remembered from the first element ("" for None)
ElementRejectedByTypeOnly(elem, typ) == typ # "" /\ typ # elem.t
ElementRejected(elem, typ) ==
    \/ typ # "" /\ typ # elem.t
    \/ elem.t = "Repeated"

\* the for loop of the Repeated arm, from element i on
RepeatedLoop(v, i, typ, field, buf) ==
    IF i > Len(v) THEN EncOk(buf)
    ELSE IF ElementRejected(v[i], typ) THEN EncErr(buf)
    ELSE LET e == encode_repeated_to(v[i], field, buf) IN
         IF ~e.ok THEN e ELSE RepeatedLoop(v, i + 1, v[i].t, field, e.buf)

\* ProtoData::encode_to
encode_to(d, field, buf) ==
    CASE d.t = "Varint" ->
           EncOk(write_uvarint(d.v, write_uvarint(Tag(field, wire_type(d)), buf)))
      [] d.t = "Fix64" ->
           EncOk(write_fix64(d.v, write_uvarint(Tag(field, wire_type(d)), buf)))
      [] d.t = "Fix32" ->
           EncOk(write_fix32(d.v, write_uvarint(Tag(field, wire_type(d)), buf)))
      [] d.t \in {"Bytes", "String"} ->
           EncOk(write_uvarint(U64(Len(d.v)),
                               write_uvarint(Tag(field, wire_type(d)), buf)) \o d.v)
      [] d.t = "Repeated" ->
           IF d.v = <<>> THEN EncOk(buf)
           ELSE RepeatedLoop(d.v, 1, "", field, RepeatedHead(d, field, buf))
      [] d.t = "Message" -> Map_encode_to(d.v, 1, buf)

\* ProtoData::encode_repeated_to
encode_repeated_to(d, field, buf) ==
    CASE d.t = "Varint" -> EncOk(write_uvarint(d.v, buf))
      [] d.t = "Fix64" -> EncOk(write_fix64(d.v, buf))
      [] d.t = "Fix32" -> EncOk(write_fix32(d.v, buf))
      [] d.t \in {"Bytes", "String"} ->
           EncOk(write_uvarint(U64(Len(d.v)),
                               write_uvarint(Tag(field, wire_type(d)), buf)) \o d.v)
      [] d.t = "Repeated" -> EncOk(buf)
      [] d.t = "Message" -> Map_encode_to(d.v, 1, buf)

\* Map::encode_to, from entry i on
Map_encode_to(m, i, buf) ==
    IF i > Len(m) THEN EncOk(buf)
    ELSE LET e == encode_to(m[i].v, m[i].k, buf) IN
         IF ~e.ok THEN e ELSE Map_encode_to(m, i + 1, e.buf)

\* Map::encode: Ok(bytes), or the error with no bytes
Map_encode(m) ==
    LET e == Map_encode_to(m, 1, <<>>) IN
    IF e.ok THEN e ELSE EncErr(<<>>)

\* str::from_utf8(b).is_ok(), from byte i on
RECURSIVE Utf8From(_, _)
Utf8From(b, i) ==
    LET n == Len(b)
        Cont(j) == j <= n /\ b[j] >= 128 /\ b[j] <= 191
        In(j, lo, hi) == j <= n /\ b[j] >= lo /\ b[j] <= hi
        c == b[i]
    IN IF i > n THEN TRUE
       ELSE IF c < 128 THEN Utf8From(b, i + 1)
       ELSE IF c >= 194 /\ c <= 223 THEN Cont(i + 1) /\ Utf8From(b, i + 2)
       ELSE IF c = 224 THEN In(i + 1, 160, 191) /\ Cont(i + 2) /\ Utf8From(b, i + 3)
       ELSE IF (c >= 225 /\ c <= 236) \/ c = 238 \/ c = 239
            THEN Cont(i + 1) /\ Cont(i + 2) /\ Utf8From(b, i + 3)
       ELSE IF c = 237 THEN In(i + 1, 128, 159) /\ Cont(i + 2) /\ Utf8From(b, i + 3)
       ELSE IF c = 240
            THEN In(i + 1, 144, 191) /\ Cont(i + 2) /\ Cont(i + 3) /\ Utf8From(b, i + 4)
       ELSE IF c >= 241 /\ c <= 243
            THEN Cont(i + 1) /\ Cont(i + 2) /\ Cont(i + 3) /\ Utf8From(b, i + 4)
       ELSE IF c = 244
            THEN In(i + 1, 128, 143) /\ Cont(i + 2) /\ Cont(i + 3) /\ Utf8From(b, i + 4)
       ELSE FALSE

from_utf8_ok(b) == Utf8From(b, 1)

-----------------------------------------------------------------------------
(* protobuf.rs: the decode engine, one frame per decode_protobuf_from call *)

NoTree == [t |-> "None", v |-> <<>>]
NoReader == Reader_new(<<>>)

\* WireType::try_from and read_tag: Ok((field, wire type)) or the error
read_tag(r) ==
    LET u == read_uvarint(r) IN
    IF ~u.ok THEN [ok |-> FALSE, err |-> u.err, r |-> u.r, field |-> Zero64, wt |-> 0]
    ELSE IF Low3(u.v) > 5
    THEN [ok |-> FALSE, err |-> "UnknownWireType", r |-> u.r, field |-> Zero64, wt |-> 0]
    ELSE [ok |-> TRUE, err |-> "", r |-> u.r, field |-> Shr64(u.v, 3), wt |-> Low3(u.v)]

\* a decode_protobuf_from call entered on reader r
\*   pc: "tag" before read_tag, "payload" after a tag, "tier1" inside the
\*       loop of read_length_delimited, "tier2" after its break
\*   done: "" while the call runs, "ok" / "err" once it has returned; pc then
\*       stays where the call returned from
\*   seen: every (field, value) the call has accumulated, in arrival order
\*   p0, p1: the cursor position on entry to the read_length_delimited call
\*       in progress, and after its length varint
\*   sub: where the failed first attempt left the sub-view's cursor
NewFrame(r) ==
    [r |-> r, parsed |-> Map_new, pc |-> "tag", done |-> "", field |-> Zero64, wt |-> 0,
     data_buf |-> NoReader, p0 |-> 0, p1 |-> 0, sub |-> 0, err |-> "",
     seen |-> <<>>]

\* the entry match of decode_protobuf_from: how one decoded value joins the map
AccumulateRewrap(parsed, field, data) ==
    IF MapHas(parsed, field)
    THEN MapInsert(parsed, field, Repeated(<<MapGet(parsed, field), data>>))
    ELSE MapInsert(parsed, field, data)
Accumulate(parsed, field, data) ==
    IF MapHas(parsed, field)
    THEN LET existing == MapGet(parsed, field) IN
         IF existing.t = "Repeated"
         THEN MapInsert(parsed, field, Repeated(Append(existing.v, data)))
         ELSE MapInsert(parsed, field, Repeated(<<existing, data>>))
    ELSE MapInsert(parsed, field, data)

\* the frame after its loop body stored data under the pending field
Stored(f, r, data) ==
    [f EXCEPT !.r = r, !.pc = "tag",
              !.parsed = Accumulate(f.parsed, f.field, data),
              !.seen = Append(f.seen, [k |-> f.field, v |-> data])]

\* the frame after decode_protobuf_from returned Err(e)
Failed(f, r, e) == [f EXCEPT !.r = r, !.done = "err", !.err = e]

\* the frame after decode_protobuf_from returned Ok(Message(parsed_data))
Finished(f, r) == [f EXCEPT !.r = r, !.done = "ok"]

\* .map_err(|_| DecodeError::Error) on a payload read
map_err_missing(e) == e
map_err(e) == "Error"

\* the arm Some(DecodeError::EOF) of the match on read_tag's error
CleanEof(e) == e = "EOF"

Top == stack[Len(stack)]
SetTop(f) == [stack EXCEPT ![Len(stack)] = f]
Decoding == mode = "decode" /\ Len(stack) >= 1
Running == Decoding /\ Top.done = ""

\* a failed attempt that leaves the sub-view where it stopped
RewindMissing(r) == r

\* data_buf.reset() after a failed attempt
Rewind(r) == reset(r)

\* whether read_length_delimited takes its len == 0 return
ZeroLengthUnchecked(len) == FALSE
ZeroLength(len) == len = Zero64

\* the list the len == 0 return carries
ZeroLengthAsString == <<String(<<>>)>>
ZeroLengthResult == <<Message(Map_new)>>

\* whether the loop of read_length_delimited returns the nested message
AcceptMessage(msg) == Len(msg) > 0

\* the record kept of a read_length_delimited call that returned Ok: the
\* caller's cursor position on entry (p0), after the length varint (p1) and
\* on return (p2), the caller's buffer, the payload bytes, how the first
\* decode_protobuf_from call on them ended ("" when none was made, "msg",
\* "fail") with the position it left the sub-view at, and the list returned
LenRecord(f, p0, p1, p2, payload, t1, sub, result) ==
    [valid |-> TRUE, buf |-> f.r.buf, field |-> f.field, p0 |-> p0, p1 |-> p1,
     p2 |-> p2, payload |-> payload, t1 |-> t1, sub |-> sub, result |-> result]
NoLen ==
    [valid |-> FALSE, buf |-> <<>>, field |-> Zero64, p0 |-> 0, p1 |-> 0, p2 |-> 0,
     payload |-> <<>>, t1 |-> "", sub |-> 0, result |-> <<>>]

\* decode_protobuf_from's match on the list read_length_delimited returned
ListToData(list) ==
    IF Len(list) = 1 THEN list[1] ELSE Repeated(list)

\* read_tag and its match: a field follows, or EOF ends the message, or the
\* error is returned
ReadTag ==
    /\ Running /\ Top.pc = "tag"
    /\ LET t == read_tag(Top.r) IN
       stack' = SetTop(
         IF t.ok THEN [Top EXCEPT !.r = t.r, !.pc = "payload",
                                  !.field = t.field, !.wt = t.wt]
         ELSE IF CleanEof(t.err) THEN Finished(Top, t.r)
         ELSE Failed(Top, t.r, t.err))
    /\ UNCHANGED <<rd, ins, mode, input, ret, src, lastLen, enc, vi>>
    /\ steps' = steps + 1

\* the VARINT, I64 and I32 arms
read_scalar(wt, r) ==
    CASE wt = VARINT -> LET u == read_uvarint(r) IN [u EXCEPT !.v = Varint(u.v)]
      [] wt = I64 -> LET u == read_fix64(r) IN [u EXCEPT !.v = Fix64(u.v)]
      [] wt = I32 -> LET u == read_fix32(r) IN [u EXCEPT !.v = Fix32(u.v)]

ReadScalar ==
    /\ Running /\ Top.pc = "payload" /\ Top.wt \in {VARINT, I64, I32}
    /\ LET u == read_scalar(Top.wt, Top.r) IN
       stack' = SetTop(IF u.ok THEN Stored(Top, u.r, u.v)
                       ELSE Failed(Top, u.r, map_err(u.err)))
    /\ UNCHANGED <<rd, ins, mode, input, ret, src, lastLen, enc, vi>>
    /\ steps' = steps + 1

\* the SGROUP / EGROUP arm
Deprecated ==
    /\ Running /\ Top.pc = "payload" /\ Top.wt \in {SGROUP, EGROUP}
    /\ stack' = SetTop(Failed(Top, Top.r, "DeprecatedWireType"))
    /\ UNCHANGED <<rd, ins, mode, input, ret, src, lastLen, enc, vi>>
    /\ steps' = steps + 1

\* the LEN arm up to the first decode_protobuf_from call of the loop
ReadLength ==
    /\ Running /\ Top.pc = "payload" /\ Top.wt = LEN
    /\ LET l == read_uvarint(Top.r)
           b == read_bytes(l.r, AsUsize(l.v))
       IN IF ~l.ok
          THEN /\ stack' = SetTop(Failed(Top, l.r, map_err(l.err)))
               /\ UNCHANGED lastLen
          ELSE IF ZeroLength(l.v)
          THEN /\ stack' = SetTop(Stored(Top, l.r, ListToData(ZeroLengthResult)))
               /\ lastLen' = LenRecord(Top, Top.r.pos, l.r.pos, l.r.pos, <<>>, "", 0,
                                       ZeroLengthResult)
          ELSE IF ~b.ok
          THEN /\ stack' = SetTop(Failed(Top, b.r, map_err(b.err)))
               /\ UNCHANGED lastLen
          ELSE /\ stack' = Append(SetTop([Top EXCEPT !.r = b.r, !.pc = "tier1",
                                                     !.p0 = Top.r.pos, !.p1 = l.r.pos,
                                                     !.data_buf = Reader_new(b.v)]),
                                  NewFrame(Reader_new(b.v)))
               /\ UNCHANGED lastLen
    /\ UNCHANGED <<rd, ins, mode, input, ret, src, enc, vi>>
    /\ steps' = steps + 1

Caller == stack[Len(stack) - 1]
Pop(f) == [SubSeq(stack, 1, Len(stack) - 1) EXCEPT ![Len(stack) - 1] = f]

\* the match on what decode_protobuf_from returned inside the loop
Tier1Return ==
    /\ Decoding /\ Len(stack) >= 2
    /\ Top.done \in {"ok", "err"} /\ Caller.pc = "tier1"
    /\ IF Top.done = "ok"
       THEN IF AcceptMessage(Top.parsed)
            THEN /\ stack' = Pop(Stored(Caller, Caller.r,
                                        ListToData(<<Message(Top.parsed)>>)))
                 /\ lastLen' = LenRecord(Caller, Caller.p0, Caller.p1, Caller.r.pos,
                                         Top.r.buf, "msg", Top.r.pos,
                                         <<Message(Top.parsed)>>)
            ELSE \* the loop calls decode_protobuf_from on data_buf again
                 /\ stack' = SetTop(NewFrame(Top.r))
                 /\ UNCHANGED lastLen
       ELSE IF Top.err = "EOF"
            THEN \* return Ok(result) with the empty result: list.len() is 0
                 /\ stack' = Pop(Failed(Caller, Caller.r, "Error"))
                 /\ UNCHANGED lastLen
            ELSE \* result.clear(); data_buf.reset(); break
                 /\ stack' = Pop([Caller EXCEPT !.pc = "tier2", !.sub = Top.r.pos,
                                                !.data_buf = Rewind(Top.r)])
                 /\ UNCHANGED lastLen
    /\ UNCHANGED <<rd, ins, mode, input, ret, src, enc, vi>>
    /\ steps' = steps + 1

\* the UTF-8 and bytes tiers of read_length_delimited, after the loop
Tier2ResultBytesOnly(data_buf) == <<Bytes(read_all_bytes(data_buf).v)>>
Tier2Result(data_buf) ==
    LET all == read_all_bytes(data_buf) IN
    IF from_utf8_ok(all.v)
    THEN <<String(all.v)>>
    ELSE <<Bytes(read_all_bytes(Rewind(all.r)).v)>>

Tier2 ==
    /\ Running /\ Top.pc = "tier2"
    /\ LET result == Tier2Result(Top.data_buf) IN
       /\ stack' = SetTop(Stored(Top, Top.r, ListToData(result)))
       /\ lastLen' = LenRecord(Top, Top.p0, Top.p1, Top.r.pos, Top.data_buf.buf,
                               "fail", Top.sub, result)
    /\ UNCHANGED <<rd, ins, mode, input, ret, src, enc, vi>>
    /\ steps' = steps + 1

\* decode_protobuf: what the outermost decode_protobuf_from call returns
NoRet == [status |-> "none", val |-> NoTree, err |-> ""]
Return ==
    /\ Decoding /\ Len(stack) = 1 /\ Top.done \in {"ok", "err"} /\ ret.status = "none"
    /\ ret' = IF Top.done = "ok"
              THEN [status |-> "ok", val |-> Message(Top.parsed), err |-> ""]
              ELSE [status |-> "err", val |-> NoTree, err |-> Top.err]
    /\ UNCHANGED <<rd, ins, mode, input, stack, src, lastLen, enc, vi>>
    /\ steps' = steps + 1

NoEnc == [ok |-> FALSE, err |-> "", buf |-> <<>>]

\* the decoded tree is encoded with Map::encode and the bytes, when there are
\* any to return, are handed to decode_protobuf again
Reencode ==
    /\ Decoding /\ ret.status = "ok" /\ src = NoTree
    /\ LET e == Map_encode(ret.val.v) IN
       /\ enc' = e
       /\ src' = ret.val
       /\ IF e.ok
          THEN /\ input' = e.buf
               /\ stack' = <<NewFrame(Reader_new(e.buf))>>
               /\ ret' = NoRet
               /\ lastLen' = NoLen
          ELSE UNCHANGED <<input, stack, ret, lastLen>>
    /\ steps' = 0
    /\ UNCHANGED <<rd, ins, mode, vi>>

-----------------------------------------------------------------------------
(* ProtoData::encode_to on a tree, and the varint codec on an integer *)

\* src.encode_to(fld, &mut buf) on an empty buf
EncodeTo ==
    /\ mode = "encode" /\ enc = NoEnc
    /\ enc' = encode_to(src, vi.x, <<>>)
    /\ UNCHANGED <<rd, ins, mode, input, stack, ret, src, lastLen, vi, steps>>

NoVi == [x |-> Zero64, signed |-> FALSE, step |-> "", bytes |-> <<>>,
         ok |-> FALSE, out |-> Zero64]

\* encode_uvarint(x) / encode_varint(x)
VarintEncode ==
    /\ mode = "varint" /\ vi.step = ""
    /\ vi' = [vi EXCEPT !.step = "encoded",
                        !.bytes = IF vi.signed THEN encode_varint(vi.x)
                                  ELSE encode_uvarint(vi.x)]
    /\ UNCHANGED <<rd, ins, mode, input, stack, ret, src, lastLen, enc, steps>>

\* read_uvarint / read_varint on a Reader over the encoded bytes
VarintRead ==
    /\ mode = "varint" /\ vi.step = "encoded"
    /\ LET u == IF vi.signed THEN read_varint(Reader_new(vi.bytes))
                ELSE read_uvarint(Reader_new(vi.bytes))
       IN vi' = [vi EXCEPT !.step = "read", !.ok = u.ok, !.out = u.v]
    /\ UNCHANGED <<rd, ins, mode, input, stack, ret, src, lastLen, enc, steps>>

-----------------------------------------------------------------------------
(* the inputs *)

\* longest input enumerated byte by byte, most entries of an encoded map,
\* most elements of an encoded Repeated
MaxLen == 4
MaxFields == 2
MaxRep == 2
\* largest byte count handed to skip / read_bytes / read_bytes_into
MaxRead == 3

\* 0x00 0x01 0x02: lengths, values, field-0 tags; 0x08 0x0a 0x0b 0x0e: field 1
\* as VARINT, LEN, SGROUP and the unknown code 6; 0x80: a continuation byte,
\* not UTF-8 on its own
Alphabet == {0, 1, 2, 8, 10, 11, 14, 128}

ByteStrings(n) == UNION {[1..k -> Alphabet] : k \in 0..n}

Rep(b, n) == [i \in 1..n |-> b]

\* inputs of the tests and of the documentation, and longer cases
Samples ==
    { <<8, 150, 1>>,
      <<18, 5, 104, 101, 108, 108, 111>>,
      <<8, 1, 8, 2, 8, 3>>,
      <<32, 1, 8, 7, 34, 0, 37, 1, 0, 0, 0, 32, 3>>,
      <<9, 1, 2, 3, 4, 5, 6, 7, 255>>,
      <<13, 1, 2, 3, 255>>,
      <<13, 1, 2, 3>>,
      <<10, 2, 195, 169>>,
      <<10, 2, 195, 40>>,
      <<10, 4, 10, 2, 8, 1>>,
      <<10, 6, 10, 4, 10, 2, 8, 1>>,
      <<10, 2, 8, 1, 10, 1, 65, 10, 1, 128>>,
      <<66, 1, 97, 66, 1, 98, 66, 1, 99>>,
      <<10, 128, 0, 8, 1>>,
      <<10, 3, 8, 1>>,
      <<12, 1>>, <<15>>, <<142, 0>>,
      Rep(128, 9), Rep(128, 10), Rep(128, 11),
      Rep(255, 9) \o <<1>>, Rep(255, 9) \o <<1, 0>> }

Bits32(v) == Bits([i \in W32 |-> IF i <= 31 THEN (v \div (2 ^ (i - 1))) % 2 ELSE 0], 32)
MinusOne32 == Bits([i \in W32 |-> 1], 32)

\* sample values and field numbers, listed (a list, since values of
\* different variants are not ordered)
ScalarValues ==
    << Varint(Zero64), Varint(U64(150)), Varint(Ones(64)),
       Fix64(U64(114514)), Fix64(Ones(64)), Fix64(Pow2(63)),
       Fix32(Bits32(1919810)), Fix32(MinusOne32) >>

FieldNumbers == << U64(1), U64(2), U64(16), Ones(61) >>

\* the Field Map built by inserting (ks[i], vs[i]) for i = n, ..., 1 into an
\* empty map
RECURSIVE BuildMap(_, _, _)
BuildMap(ks, vs, n) ==
    IF n = 0 THEN Map_new
    ELSE MapInsert(BuildMap(ks, vs, n - 1), FieldNumbers[ks[n]], ScalarValues[vs[n]])

RepElements ==
    << Varint(U64(1)), Varint(U64(300)), Fix64(U64(7)), Fix32(Bits32(7)),
       Bytes(<<>>), Bytes(<<255, 0>>), String(<<104, 105>>),
       Message(Map_new), Message(<<[k |-> U64(1), v |-> Varint(U64(1))]>>),
       Message(<<[k |-> U64(2), v |-> String(<<97>>)]>>),
       Repeated(<<>>), Repeated(<<Varint(U64(1))>>) >>

\* 2^k, 2^k - 1 and their complements, which as i64 are the negative numbers
\* -(2^k) - 1 and -(2^k)
VarintSamples ==
    UNION { {Pow2(k), Not64(Pow2(k))} : k \in 0..63 }
    \cup UNION { {Ones(k), Not64(Ones(k))} : k \in 0..64 }
    \cup { U64(150), U64(123456), U64(1000) }

(* the Reader on its own: any sequence of its operations, and read_uvarint *)

NoRd == [r |-> NoReader, op |-> "", n |-> 0, before |-> NoReader,
         ok |-> FALSE, err |-> "", v |-> <<>>]

\* the Reader after the operation op(n), with what the operation returned
Did(op, n, res) ==
    [r |-> res.r, op |-> op, n |-> n, before |-> rd.r,
     ok |-> res.ok, err |-> res.err, v |-> res.v]

ReaderStep(op, n, res) ==
    /\ mode = "reader"
    /\ rd' = Did(op, n, res)
    /\ UNCHANGED <<mode, input, stack, ret, src, lastLen, enc, vi, steps, ins>>

Skip == \E n \in 0..MaxRead : ReaderStep("skip", n, skip(rd.r, n))
ReadByte == ReaderStep("read_byte", 1, read_byte(rd.r))
ReadBytes == \E n \in 0..MaxRead : ReaderStep("read_bytes", n, read_bytes(rd.r, n))
ReadAllBytes == ReaderStep("read_all_bytes", rd.r.remain, read_all_bytes(rd.r))
ReadBytesInto ==
    \E n \in 0..MaxRead : ReaderStep("read_bytes_into", n, read_bytes_into(rd.r, n))
Reset ==
    ReaderStep("reset", 0, [ok |-> TRUE, err |-> "", r |-> reset(rd.r), v |-> <<>>])
ReadUvarint == ReaderStep("read_uvarint", 0, read_uvarint(rd.r))

\* a map built by inserts, then encoded: m.insert(k, v) and m.encode()
InsertKeys == << U64(9), U64(2), U64(300), Pow2(63) >>
InsertValues ==
    << Varint(U64(150)), String(<<104, 105>>),
       Repeated(<<Varint(U64(1)), Fix64(U64(7))>>) >>

Insert ==
    /\ mode = "map" /\ enc = NoEnc /\ Len(ins) < MaxFields
    /\ \E i \in 1..Len(InsertKeys), j \in 1..Len(InsertValues) :
         /\ src' = Message(MapInsert(src.v, InsertKeys[i], InsertValues[j]))
         /\ ins' = Append(ins, [k |-> InsertKeys[i], v |-> InsertValues[j]])
    /\ UNCHANGED <<mode, input, stack, ret, lastLen, enc, vi, steps, rd>>

MapEncode ==
    /\ mode = "map" /\ enc = NoEnc
    /\ enc' = Map_encode(src.v)
    /\ UNCHANGED <<mode, input, stack, ret, src, lastLen, vi, steps, rd, ins>>

Idle == /\ stack = <<>> /\ ret = NoRet /\ lastLen = NoLen /\ input = <<>> /\ steps = 0

\* the run uses no Reader of its own and inserts into no map
NoReaderRun == rd = NoRd /\ ins = <<>>

InitBytes(n) ==
    /\ mode = "decode"
    /\ input \in ByteStrings(n) \cup Samples
    /\ stack = <<NewFrame(Reader_new(input))>>
    /\ ret = NoRet /\ src = NoTree /\ lastLen = NoLen /\ enc = NoEnc /\ vi = NoVi
    /\ steps = 0
    /\ NoReaderRun

\* decode_protobuf(m.encode())
InitMaps ==
    /\ mode = "decode"
    /\ \E n \in 0..MaxFields :
       \E ks \in [1..n -> 1..Len(FieldNumbers)], vs \in [1..n -> 1..Len(ScalarValues)] :
         /\ src = Message(BuildMap(ks, vs, n))
         /\ enc = Map_encode(src.v)
         /\ input = enc.buf
    /\ stack = IF enc.ok THEN <<NewFrame(Reader_new(input))>> ELSE <<>>
    /\ ret = NoRet /\ lastLen = NoLen /\ vi = NoVi /\ steps = 0
    /\ NoReaderRun

InitEncode ==
    /\ mode = "encode"
    /\ \/ \E i \in 1..Len(RepElements) : src = RepElements[i]
       \/ \E n \in 1..MaxRep : \E l \in [1..n -> 1..Len(RepElements)] :
            src = Repeated([j \in 1..n |-> RepElements[l[j]]])
    /\ \E f \in {1, 16} : vi = [NoVi EXCEPT !.x = U64(f)]
    /\ enc = NoEnc
    /\ Idle /\ NoReaderRun

InitVarint ==
    /\ mode = "varint"
    /\ \E x \in VarintSamples, s \in BOOLEAN : vi = [NoVi EXCEPT !.x = x, !.signed = s]
    /\ src = NoTree /\ enc = NoEnc
    /\ Idle /\ NoReaderRun

\* buffers for the Reader run: the varint tests of lib.rs with and without
\* following bytes, and ten-byte varints at the 64-bit limit
ReaderSamples ==
    { <<>>, <<1, 2, 3, 4>>,
      <<192, 196, 7>>,
      <<192, 196, 7, 1, 1, 1, 1, 1, 1, 1, 1>>,
      <<192, 196, 7, 255, 128>>,
      <<150, 1, 192, 196, 7>>,
      <<0, 128, 0, 127>>,
      Rep(255, 9) \o <<1>>,
      Rep(255, 9) \o <<1, 7>>,
      Rep(255, 9) \o <<2>>,
      Rep(128, 9) \o <<127, 5>>,
      Rep(255, 9) \o <<129, 0>>,
      Rep(128, 10), Rep(128, 11), Rep(128, 9) }

InitReader ==
    /\ mode = "reader"
    /\ \E b \in ReaderSamples : rd = [NoRd EXCEPT !.r = Reader_new(b), !.op = "new", !.ok = TRUE]
    /\ src = NoTree /\ enc = NoEnc /\ vi = NoVi /\ ins = <<>>
    /\ Idle

InitInsert ==
    /\ mode = "map"
    /\ src = Message(Map_new) /\ ins = <<>>
    /\ enc = NoEnc /\ vi = NoVi /\ rd = NoRd
    /\ Idle

Init ==
    InitBytes(MaxLen) \/ InitMaps \/ InitEncode \/ InitVarint \/ InitReader
    \/ InitInsert

Next ==
    \/ ReadTag
    \/ ReadScalar
    \/ Deprecated
    \/ ReadLength
    \/ Tier1Return
    \/ Tier2
    \/ Return
    \/ Reencode
    \/ EncodeTo
    \/ VarintEncode
    \/ VarintRead
    \/ Skip
    \/ ReadByte
    \/ ReadBytes
    \/ ReadAllBytes
    \/ ReadBytesInto
    \/ Reset
    \/ ReadUvarint
    \/ Insert
    \/ MapEncode

Spec == Init /\ [][Next]_vars

-----------------------------------------------------------------------------
(* the claims *)

Frames == {stack[i] : i \in 1..Len(stack)}
TopOf(s) == s[Len(s)]

\* the loop of read_length_delimited is about to call decode_protobuf_from
\* again after a successful parse that produced no field
EmptyRetry ==
    /\ Decoding /\ Len(stack) >= 2
    /\ Top.done = "ok" /\ Top.parsed = Map_new /\ Caller.pc = "tier1"

\* the guards of the decode steps: some step of the call can be taken
CanStep ==
    /\ Decoding
    /\ \/ Top.done = "" /\ Top.pc \in {"tag", "tier2"}
       \/ Top.done = "" /\ Top.pc = "payload"
            /\ Top.wt \in {VARINT, I64, LEN, SGROUP, EGROUP, I32}
       \/ Top.done # "" /\ Len(stack) >= 2 /\ Caller.pc = "tier1"
       \/ Top.done # "" /\ Len(stack) = 1 /\ ret.status = "none"

\* C1: every decode_protobuf call returns, a Message or an error, after
\* finitely many steps: a call that has not returned can always take its
\* next step, it has taken at most 3 * len(input) + 2 steps, and the loop of
\* read_length_delimited never goes round again on a successful but empty
\* nested parse.
C1_Terminates ==
    /\ ~EmptyRetry
    /\ mode = "decode" => steps <= 3 * Len(input) + 2
    /\ (mode = "decode" /\ ret.status = "none") => CanStep

\* a decode whose LEN field went through the failed first attempt and the
\* later tiers has returned
C1_Witness ==
    /\ mode = "decode" /\ ret.status # "none"
    /\ lastLen.valid /\ lastLen.t1 = "fail" /\ Len(lastLen.payload) >= 2

\* C2: for a LEN field whose L > 0 payload bytes are available the value is
\* a Message exactly when the recursive decode of the payload succeeded with
\* at least one field, otherwise a String of the whole payload exactly when
\* the payload is valid UTF-8, otherwise Bytes holding the payload verbatim;
\* the payload is the L bytes after the length varint, whatever the field.
C2_Priority ==
    (lastLen.valid /\ lastLen.payload # <<>>) =>
        LET d == lastLen.result[1] IN
        /\ Len(lastLen.result) = 1
        /\ lastLen.payload = SubSeq(lastLen.buf, lastLen.p1 + 1, lastLen.p2)
        /\ lastLen.t1 \in {"msg", "fail"}
        /\ (d.t = "Message") = (lastLen.t1 = "msg")
        /\ d.t = "Message" => d.v # Map_new
        /\ lastLen.t1 = "fail" =>
             IF from_utf8_ok(lastLen.payload)
             THEN d = String(lastLen.payload)
             ELSE d = Bytes(lastLen.payload)

\* a payload that is a non-empty nested message and valid UTF-8 as well
C2_Witness ==
    /\ lastLen.valid /\ lastLen.t1 = "msg" /\ from_utf8_ok(lastLen.payload)
    /\ lastLen.result[1].t = "Message"

\* C3: when decode succeeds with tree t, encoding t succeeds and decoding the
\* encoded bytes yields t again.
C3_RoundTrip ==
    (mode = "decode" /\ src # NoTree) =>
        /\ enc.ok
        /\ ret.status # "none" => (ret.status = "ok" /\ ret.val = src)

\* the values a call accumulated under field k, in arrival order
ValuesOf(seen, k) ==
    LET IsK(e) == e.k = k
        sel == SelectSeq(seen, IsK)
    IN [i \in 1..Len(sel) |-> sel[i].v]

RECURSIVE NoNestedRepeated(_)
NoNestedRepeated(d) ==
    CASE d.t = "Repeated" ->
           \A i \in 1..Len(d.v) : d.v[i].t # "Repeated" /\ NoNestedRepeated(d.v[i])
      [] d.t = "Message" -> \A i \in 1..Len(d.v) : NoNestedRepeated(d.v[i].v)
      [] OTHER -> TRUE

\* C4: the Field Map of every decode call has exactly one entry for each
\* field number that occurred: the bare value after one occurrence, a
\* Repeated of all the values in arrival order after two or more; and no
\* element of a Repeated is a Repeated.
C4_Accumulation ==
    \A f \in Frames :
        /\ \A i \in 1..Len(f.seen) : MapHas(f.parsed, f.seen[i].k)
        /\ \A i, j \in 1..Len(f.parsed) : i < j => Lt64(f.parsed[i].k, f.parsed[j].k)
        /\ \A j \in 1..Len(f.parsed) :
             LET vs == ValuesOf(f.seen, f.parsed[j].k) IN
             /\ Len(vs) >= 1
             /\ Len(vs) = 1 => f.parsed[j].v = vs[1]
             /\ Len(vs) >= 2 => f.parsed[j].v = Repeated(vs)
             /\ NoNestedRepeated(f.parsed[j].v)

\* a returned message in which one field occurred four times, with three
\* wire types, around another field
C4_Witness ==
    /\ mode = "decode" /\ ret.status = "ok" /\ Len(ret.val.v) = 2
    /\ \E j \in 1..2 :
         LET d == ret.val.v[j].v IN
         /\ d.t = "Repeated" /\ Len(d.v) = 4
         /\ d.v[1].t = "Varint" /\ d.v[2].t = "Message" /\ d.v[3].t = "Fix32"

\* the wire-type code of a one-byte tag
Code(b) == b % 8

\* C5: a decode call returns a Message only from a tag boundary with the
\* cursor exhausted; a truncated or overflowing tag, a wire-type code 6 or 7,
\* a code 3 or 4, or an unreadable payload (also when the input ends right
\* after a tag) makes it return that error and no Field Map; EOF is never
\* returned as the error.
C5_ErrorsAbort ==
    /\ \A f \in Frames :
         /\ f.done = "ok" => (f.pc = "tag" /\ f.r.remain = 0 /\ f.r.pos = Len(f.r.buf))
         /\ f.done = "err" => f.err # "EOF"
    /\ ret.status = "err" => (ret.val = NoTree /\ ret.err # "EOF")
    /\ ret.status = "ok" => ret.val.t = "Message"
    /\ (mode = "decode" /\ ret.status # "none") =>
         /\ input = <<>> => ret.status = "ok"
         /\ (input # <<>> /\ Len(input) <= 9 /\ \A i \in 1..Len(input) : input[i] >= 128)
              => (ret.status = "err" /\ ret.err = "UnexpectedEof")
         /\ (Len(input) >= 10 /\ \A i \in 1..10 : input[i] >= 128)
              => (ret.status = "err" /\ ret.err = "OverFlow64Bit")
         /\ (input # <<>> /\ input[1] < 128 /\ Code(input[1]) \in {6, 7})
              => (ret.status = "err" /\ ret.err = "UnknownWireType")
         /\ (input # <<>> /\ input[1] < 128 /\ Code(input[1]) \in {3, 4})
              => (ret.status = "err" /\ ret.err = "DeprecatedWireType")
         /\ (Len(input) = 1 /\ input[1] < 128 /\ Code(input[1]) \in {0, 1, 2, 5})
              => (ret.status = "err" /\ ret.err = "Error")

\* the input ended right after a complete tag and the call returned the error
C5_Witness ==
    /\ mode = "decode" /\ Len(input) = 1 /\ input[1] < 128 /\ Code(input[1]) = 0
    /\ ret.status = "err" /\ ret.err = "Error"

\* the number of bytes of a varint of value 0 at position pos of buf (0x80
\* bytes, then 0x00), or 0 when there is none
ZeroVarintAt(buf, pos) ==
    LET ks == {k \in 1..MAX_VARINT_LENGTH :
                 /\ pos + k <= Len(buf)
                 /\ buf[pos + k] = 0
                 /\ \A j \in 1..(k - 1) : buf[pos + j] = 128}
    IN IF ks = {} THEN 0 ELSE CHOOSE k \in ks : TRUE

\* C6: a LEN field whose length varint is 0 is stored as an empty Message,
\* the cursor stops right after the length varint, and the call goes on to
\* the next tag.
C6_ZeroLength ==
    [][(/\ Running /\ Top.pc = "payload" /\ Top.wt = LEN
        /\ ZeroVarintAt(Top.r.buf, Top.r.pos) > 0)
       => /\ Len(stack') = Len(stack)
          /\ TopOf(stack').done = "" /\ TopOf(stack').pc = "tag"
          /\ TopOf(stack').r.pos = Top.r.pos + ZeroVarintAt(Top.r.buf, Top.r.pos)
          /\ TopOf(stack').seen =
               Append(Top.seen, [k |-> Top.field, v |-> Message(Map_new)])
          /\ lastLen'.result = <<Message(Map_new)>>]_vars

\* a message that starts with a zero-length LEN field and has a field after it
C6_Witness ==
    /\ mode = "decode" /\ ret.status = "ok" /\ src = NoTree
    /\ Len(stack[1].seen) >= 2
    /\ stack[1].seen[1].v = Message(Map_new)
    /\ ZeroVarintAt(input, 1) > 0

Homogeneous(v) == \A i \in 1..Len(v) : v[i].t = v[1].t
NoRepeatedIn(v) == \A i \in 1..Len(v) : v[i].t # "Repeated"
Encoded == mode = "encode" /\ enc # NoEnc

\* C7: encode_to on an empty Repeated succeeds and writes nothing; on a
\* non-empty one it succeeds only if every element has the variant of the
\* first and none is a Repeated, and fails with the data error otherwise.
C7_RepeatedChecks ==
    (Encoded /\ src.t = "Repeated") =>
        /\ src.v = <<>> => (enc.ok /\ enc.buf = <<>>)
        /\ (src.v # <<>> /\ enc.ok) => (Homogeneous(src.v) /\ NoRepeatedIn(src.v))
        /\ (src.v # <<>> /\ ~(Homogeneous(src.v) /\ NoRepeatedIn(src.v)))
             => (~enc.ok /\ enc.err = "DataError")

\* a Repeated of a Varint and a String was refused
C7_Witness ==
    /\ Encoded /\ src.t = "Repeated" /\ Len(src.v) = 2
    /\ src.v[1].t = "Varint" /\ src.v[2].t = "String"
    /\ ~enc.ok /\ enc.err = "DataError"

\* the payload bytes of a LEN element
PayloadOf(d) == IF d.t = "Message" THEN Map_encode(d.v).buf ELSE d.v

\* tag (field << 3) | 2, length varint, payload, for each element in order
RECURSIVE PerElement(_, _, _)
PerElement(v, i, field) ==
    IF i > Len(v) THEN <<>>
    ELSE encode_uvarint(Tag(field, LEN)) \o encode_uvarint(U64(Len(PayloadOf(v[i]))))
         \o PayloadOf(v[i]) \o PerElement(v, i + 1, field)

\* C8: a non-empty homogeneous Repeated of Bytes, String or Message elements
\* is written as, for each element in order, the element's own tag
\* (field << 3) | 2, its length varint and its payload, with no shared tag.
C8_PerElementTag ==
    (/\ Encoded /\ src.t = "Repeated" /\ src.v # <<>>
     /\ Homogeneous(src.v) /\ src.v[1].t \in {"Bytes", "String", "Message"})
    => (enc.ok /\ enc.buf = PerElement(src.v, 1, vi.x))

ScalarTree(d) ==
    /\ d.t = "Message"
    /\ \A i \in 1..Len(d.v) :
         /\ d.v[i].v.t \in {"Varint", "Fix64", "Fix32"}
         /\ \A b \in 62..64 : d.v[i].k[b] = 0

One150 == Message(<<[k |-> U64(1), v |-> Varint(U64(150))]>>)

\* C9: a Field Map of Varint, Fix64 and Fix32 values under field numbers
\* below 2^61 encodes, and its bytes decode to the same map; 08 96 01 decodes
\* to {1: Varint(150)}, which encodes to 08 96 01.
C9_ScalarRoundTrip ==
    /\ (mode = "decode" /\ src # NoTree /\ ScalarTree(src)) =>
         /\ enc.ok
         /\ ret.status # "none" => (ret.status = "ok" /\ ret.val = src)
    /\ (mode = "decode" /\ src = NoTree /\ input = <<8, 150, 1>> /\ ret.status # "none")
         => (ret.status = "ok" /\ ret.val = One150)
    /\ (mode = "decode" /\ src = One150) => (enc.ok /\ enc.buf = <<8, 150, 1>>)

\* a map of a Fix32 and a Fix64 value, one under field 2^61 - 1, came back
C9_Witness ==
    /\ mode = "decode" /\ ret.status = "ok" /\ ScalarTree(src) /\ Len(src.v) = 2
    /\ src.v[1].v.t = "Fix32" /\ src.v[2].v.t = "Fix64" /\ src.v[2].k = Ones(61)
    /\ ret.val = src

\* C10: read_uvarint over encode_uvarint(x) returns x, read_varint over
\* encode_varint(x) returns x, encode_varint(-1) = encode_uvarint(1), and no
\* encoding is longer than 10 bytes.
C10_VarintRoundTrip ==
    /\ encode_varint(Ones(64)) = encode_uvarint(U64(1))
    /\ (mode = "varint" /\ vi.step # "") => Len(vi.bytes) <= MAX_VARINT_LENGTH
    /\ (mode = "varint" /\ vi.step = "read") => (vi.ok /\ vi.out = vi.x)

\* the bytes of the buffer from position p on
From(r) == SubSeq(r.buf, r.pos + 1, Len(r.buf))

\* the varint that starts b has more than 64 significant bits: ten bytes with
\* the continuation bit, or a terminating tenth byte with payload above 1
Exceeds64(b) ==
    /\ Len(b) >= MAX_VARINT_LENGTH
    /\ \A i \in 1..(MAX_VARINT_LENGTH - 1) : b[i] >= 128
    /\ b[MAX_VARINT_LENGTH] >= 128 \/ b[MAX_VARINT_LENGTH] > 1

\* C11: read_uvarint fails with OverFlow64Bit whenever the varint has more
\* than 64 significant bits: ten bytes in a row with the continuation bit, or
\* a terminating tenth byte whose payload is greater than 1; no truncated
\* value is returned.
C11_OverflowDetected ==
    (mode = "reader" /\ rd.op = "read_uvarint" /\ Exceeds64(From(rd.before))) =>
        (~rd.ok /\ rd.err = "OverFlow64Bit")

\* the Reader satisfies the cursor invariant
CursorOk(r) ==
    /\ remaining(r) = Len(r.buf) - r.pos
    /\ 0 <= r.pos /\ r.pos <= Len(r.buf)

\* operations of the Reader that take a byte count
Counted == {"skip", "read_bytes", "read_bytes_into", "read_all_bytes"}
ReaderOps == Counted \cup {"read_byte", "reset", "new"}

\* C15: after any sequence of Reader operations remaining = len(buffer) -
\* position and 0 <= position <= len(buffer); an operation that fails with
\* UnexpectedEof leaves position and remaining unchanged; a read of 0 bytes
\* succeeds and consumes nothing; reset restores position 0 and remaining =
\* len(buffer).  The Readers of the decode calls keep the invariant as well.
C15_CursorInvariant ==
    /\ mode = "reader" =>
         /\ CursorOk(rd.r)
         /\ rd.r.buf = rd.before.buf \/ rd.op = "new"
         /\ (rd.op \in ReaderOps /\ ~rd.ok) =>
              (rd.err = "io::UnexpectedEof" /\ rd.r = rd.before)
         /\ (rd.op \in ReaderOps /\ rd.ok /\ rd.op \notin {"reset", "new"}) =>
              (rd.r.pos = rd.before.pos + rd.n /\ rd.n <= remaining(rd.before))
         /\ (rd.op \in Counted /\ rd.n = 0) => (rd.ok /\ rd.r = rd.before)
         /\ rd.op \in {"reset", "new"} =>
              (rd.r.pos = 0 /\ remaining(rd.r) = Len(rd.r.buf))
    /\ \A f \in Frames : CursorOk(f.r) /\ CursorOk(f.data_buf)

\* a read_bytes that failed in the middle of the buffer
C15_Witness ==
    /\ mode = "reader" /\ rd.op = "read_bytes" /\ ~rd.ok
    /\ rd.before.pos > 0 /\ remaining(rd.before) > 0 /\ rd.r = rd.before

\* the number of bytes up to and including the first one with the high bit clear
RECURSIVE VarintLen(_)
VarintLen(b) == IF b = <<>> THEN 0 ELSE IF Head(b) < 128 THEN 1 ELSE 1 + VarintLen(Tail(b))

\* C13: a successful read_uvarint advances the cursor by exactly the bytes up
\* to and including the first byte with the high bit clear and leaves what
\* follows unconsumed; the value is the one those bytes give on their own
\* (192 196 7 followed by anything gives 123456, cursor 3 bytes in).
C13_TrailingBytes ==
    (mode = "reader" /\ rd.op = "read_uvarint" /\ rd.ok) =>
        LET b == From(rd.before)
            k == VarintLen(b)
            own == read_uvarint(Reader_new(SubSeq(b, 1, k)))
        IN /\ k >= 1 /\ b[k] < 128
           /\ rd.r.pos = rd.before.pos + k
           /\ remaining(rd.r) = remaining(rd.before) - k
           /\ From(rd.r) = SubSeq(b, k + 1, Len(b))
           /\ own.ok /\ rd.v = own.v
           /\ SubSeq(b, 1, k) = <<192, 196, 7>> => rd.v = U64(123456)

\* 192 196 7 read with two bytes after it
C13_Witness ==
    /\ mode = "reader" /\ rd.op = "read_uvarint" /\ rd.ok
    /\ rd.before.pos = 0 /\ rd.r.pos = 3 /\ From(rd.r) = <<255, 128>>
    /\ rd.v = U64(123456)

\* the map built by inserting the pairs of a list in the order perm
RECURSIVE InsertAll(_, _, _)
InsertAll(pairs, perm, n) ==
    IF n = 0 THEN Map_new
    ELSE MapInsert(InsertAll(pairs, perm, n - 1), pairs[perm[n]].k, pairs[perm[n]].v)

\* the field numbers of the pairs are unique
UniqueFields(pairs) ==
    \A i, j \in 1..Len(pairs) : pairs[i].k = pairs[j].k => i = j

\* the pairs in ascending field-number order, by selection of the least
RECURSIVE Ascending(_)
Ascending(pairs) ==
    IF pairs = <<>> THEN <<>>
    ELSE LET i == CHOOSE a \in 1..Len(pairs) :
                    \A b \in 1..Len(pairs) : ~Lt64(pairs[b].k, pairs[a].k)
             rest == SubSeq(pairs, 1, i - 1) \o SubSeq(pairs, i + 1, Len(pairs))
         IN <<pairs[i]>> \o Ascending(rest)

\* the bytes of each pair encoded on its own, one after the other
RECURSIVE EachEncoded(_)
EachEncoded(pairs) ==
    IF pairs = <<>> THEN <<>>
    ELSE encode_to(Head(pairs).v, Head(pairs).k, <<>>).buf \o EachEncoded(Tail(pairs))

\* C12: Map::encode writes the entries in ascending field-number order: every
\* insertion order of the same (field, value) pairs gives the same result,
\* and the bytes of a lower field number precede those of a higher one.
C12_FieldOrder ==
    (mode = "map" /\ UniqueFields(ins)) =>
        /\ \A perm \in Permutations(1..Len(ins)) :
             /\ InsertAll(ins, perm, Len(ins)) = src.v
             /\ Map_encode(InsertAll(ins, perm, Len(ins))) = Map_encode(src.v)
        /\ (enc # NoEnc /\ enc.ok) => enc.buf = EachEncoded(Ascending(ins))
        /\ enc # NoEnc => enc = Map_encode(src.v)

\* field 9 inserted before field 2: field 2's bytes come first
C12_Witness ==
    /\ mode = "map" /\ Len(ins) = 2 /\ ins[1].k = U64(9) /\ ins[2].k = U64(2)
    /\ enc.ok /\ enc.buf = <<16, 150, 1, 72, 150, 1>>

\* a call of read_length_delimited is in progress in frame f: the sub-view
\* data_buf exists and the caller's cursor is past the payload
InLen(f) == f.done = "" /\ f.pc \in {"tier1", "tier2"}

\* C14: when read_length_delimited succeeds on a LEN field of length L, the
\* outer cursor has advanced by the length varint plus L whichever tier gave
\* the value and however far the failed nested decode got in the sub-view;
\* the later tiers start from the rewound sub-view, so String / Bytes hold all
\* L payload bytes and nothing of the failed attempt is in the result.
C14_SubView ==
    /\ lastLen.valid =>
         LET L == Len(lastLen.payload)
             lenBytes == VarintLen(SubSeq(lastLen.buf, lastLen.p0 + 1, Len(lastLen.buf)))
             len == read_uvarint([Reader_new(lastLen.buf) EXCEPT
                                     !.pos = lastLen.p0,
                                     !.remain = Len(lastLen.buf) - lastLen.p0])
         IN /\ len.ok /\ AsUsize(len.v) = L
            /\ lastLen.p1 = lastLen.p0 + lenBytes
            /\ lastLen.p2 = lastLen.p0 + lenBytes + L
            /\ lastLen.payload = SubSeq(lastLen.buf, lastLen.p1 + 1, lastLen.p1 + L)
            /\ Len(lastLen.result) = 1
            /\ lastLen.sub <= L
            /\ lastLen.t1 = "msg" =>
                 (lastLen.result[1].t = "Message" /\ lastLen.sub = L)
            /\ lastLen.t1 = "fail" =>
                 /\ lastLen.result[1].t \in {"String", "Bytes"}
                 /\ lastLen.result[1].v = lastLen.payload
    /\ \A f \in Frames : InLen(f) =>
         /\ f.r.pos = f.p1 + Len(f.data_buf.buf)
         /\ f.data_buf.buf = SubSeq(f.r.buf, f.p1 + 1, f.r.pos)
         /\ f.pc = "tier2" =>
              (f.data_buf.pos = 0 /\ remaining(f.data_buf) = Len(f.data_buf.buf))

\* the nested decode consumed both payload bytes before it failed, the
\* payload is not UTF-8, and the Bytes value still holds both bytes
C14_Witness ==
    /\ lastLen.valid /\ lastLen.t1 = "fail" /\ lastLen.sub = 2
    /\ lastLen.result = <<Bytes(<<8, 128>>)>>
    /\ lastLen.p2 = lastLen.p1 + 2

====
